---- MODULE Spec2Model ----
(***************************************************************************)
(* RNAScope counter (src/rnascope_counter/app.py): the image loader, the   *)
(* display normaliser, the spot quantifier and the ROI acquisition         *)
(* sequence of RNAScopeCounterApp, as a state machine.                     *)
(*                                                                         *)
(* Arrays are records [shape, data]: shape is the tuple of axis lengths    *)
(* and data maps every 0-based index tuple to a number.  Floating point    *)
(* results are exact fractions <<numerator, denominator>> in lowest terms. *)
(***************************************************************************)
EXTENDS Integers, Sequences, FiniteSets, TLC

VARIABLES
    pc,                \* position of run_app: dialog, load_hipp, load_thal, init, running, complete, aborted
    hippo_path,        \* run_app argument: the hippocampus file
    thal_path,         \* run_app argument: the thalamus file
    max_projected,     \* run_app argument: the --max-projected flag
    attrs,             \* names of the attributes assigned on the window so far
    pixel_spacing,     \* self.pixel_spacing, in 1/10000 micron
    hipp_channels,     \* self.hipp_channels
    thal_channels,     \* self.thal_channels
    hipp_rois,         \* self.hipp_rois: ordered dict, a sequence of <<name, rect>>
    thal_rois,         \* self.thal_rois
    image_label,       \* the QImage shown by self.image_label
    current_image,     \* self.current_image
    expected_rois,     \* self.expected_rois
    current_roi_index, \* self.current_roi_index
    status_message,    \* region named by the status bar prompt "Select ROI for ..."
    report,            \* the rows of the CSV file written so far (header excluded)
    report_writes,     \* number of times the output file was written
    analyze_calls,     \* number of calls of analyze
    error,             \* exception that left the last handler, "" if none
    submitted,         \* the roiSelected emissions so far: <<prompt shown, rect>>
    call,              \* pure-function harness: the arguments
    ret                \* pure-function harness: the result

vars == <<pc, hippo_path, thal_path, max_projected, attrs, pixel_spacing,
          hipp_channels, thal_channels, hipp_rois, thal_rois, image_label,
          current_image, expected_rois, current_roi_index, status_message,
          report, report_writes, analyze_calls, error, submitted, call, ret>>

sessionVars == <<pc, hippo_path, thal_path, max_projected, attrs, pixel_spacing,
          hipp_channels, thal_channels, hipp_rois, thal_rois, image_label,
          current_image, expected_rois, current_roi_index, status_message,
          report, report_writes, analyze_calls, error, submitted>>

----------------------------------------------------------------------------
(* Bounds of the model *)

\* height and width of the catalogue images
ImgH == 5
ImgW == 7
\* depth of the 4-dimensional catalogue images
ImgDepth == 2
\* roiSelected emissions per session (4 complete it; the rest arrive after)
MaxSubmissions == 5
\* load_image inputs: axis lengths, pattern coefficients and pixel modulus
LoadDepth == 2
LoadH == 2
LoadW == 4
MaxCoef == 2
PixelModulus == 5
\* analyze inputs: how far a rectangle may reach outside the channel
MaxOff == 1

----------------------------------------------------------------------------
(* numpy arrays *)

Max(S) == CHOOSE m \in S : \A v \in S : v <= m
Min(S) == CHOOSE m \in S : \A v \in S : m <= v

\* the index tuples of an array of the given shape (up to 4 axes)
Ix(n) == 0..(n - 1)
Indices(shape) ==
    CASE Len(shape) = 0 -> {<<>>}
      [] Len(shape) = 1 -> {<<i>> : i \in Ix(shape[1])}
      [] Len(shape) = 2 -> Ix(shape[1]) \X Ix(shape[2])
      [] Len(shape) = 3 -> Ix(shape[1]) \X Ix(shape[2]) \X Ix(shape[3])
      [] Len(shape) = 4 -> Ix(shape[1]) \X Ix(shape[2]) \X Ix(shape[3]) \X Ix(shape[4])

\* an array: its shape and the value at every index tuple of that shape
ndarray(shape, data) == [shape |-> shape, data |-> data]

ndim(a) == Len(a.shape)

\* data.max(axis=0)
amax_axis0(a) ==
    ndarray(Tail(a.shape),
            [idx \in Indices(Tail(a.shape)) |->
                Max({a.data[<<z>> \o idx] : z \in 0..(a.shape[1] - 1)})])

\* np.moveaxis(data, -1, 0)
moveaxis_last_first(a) ==
    LET n == Len(a.shape)
        moved == <<a.shape[n]>> \o SubSeq(a.shape, 1, n - 1)
    IN ndarray(moved, [idx \in Indices(moved) |-> a.data[Tail(idx) \o <<idx[1]>>]])

\* stack[k]: the k-th sub-array along the first axis
subarray(a, k) ==
    ndarray(Tail(a.shape), [idx \in Indices(Tail(a.shape)) |-> a.data[<<k>> \o idx]])

----------------------------------------------------------------------------
(* Outcomes of a call *)

Return(v) == [kind |-> "return", value |-> v]
Raise(type, msg) == [kind |-> "raise", type |-> type, msg |-> msg]
Pending == [kind |-> "pending"]
NoCall == [fn |-> "none"]

----------------------------------------------------------------------------
(* load_image *)

\* load_image as it would be without the check of the flag: a stack that still
\* has its depth axis is projected whatever the caller said
load_image_noflag(raw, already_max_projected) ==
    LET data == IF ndim(raw) = 4 THEN amax_axis0(raw) ELSE raw IN
    IF ndim(data) = 3 /\ data.shape[1] = 3 THEN Return(data)
    ELSE IF ndim(data) = 3 /\ data.shape[3] = 3 THEN Return(moveaxis_last_first(data))
    ELSE Raise("ValueError", "Expected 3-channel image")

load_image(raw, already_max_projected) ==
    IF ndim(raw) = 4 /\ already_max_projected
    THEN Raise("ValueError",
               "Image flagged as already max-projected but still has a z dimension")
    ELSE LET data == IF ndim(raw) = 4 THEN amax_axis0(raw) ELSE raw IN
         IF ndim(data) = 3 /\ data.shape[1] = 3 THEN Return(data)
         ELSE IF ndim(data) = 3 /\ data.shape[3] = 3
              THEN Return(moveaxis_last_first(data))
              ELSE Raise("ValueError", "Expected 3-channel image")

----------------------------------------------------------------------------
(* The session is idle while a pure function is exercised on its own *)

NoArray == [shape |-> <<>>, data |-> <<>>]

SessionIdle ==
    /\ pc = "idle"
    /\ hippo_path = "" /\ thal_path = "" /\ max_projected = FALSE
    /\ attrs = {}
    /\ pixel_spacing = 0
    /\ hipp_channels = NoArray /\ thal_channels = NoArray
    /\ hipp_rois = <<>> /\ thal_rois = <<>>
    /\ image_label = NoArray
    /\ current_image = "" /\ expected_rois = <<>> /\ current_roi_index = 0
    /\ status_message = ""
    /\ report = <<>> /\ report_writes = 0 /\ analyze_calls = 0
    /\ error = "" /\ submitted = <<>>

----------------------------------------------------------------------------
(* load_image on its own: patterned arrays of every layout *)

RECURSIVE Dot(_, _)
Dot(a, b) == IF Len(a) = 0 THEN 0 ELSE a[1] * b[1] + Dot(Tail(a), Tail(b))

Pattern(shape, coef) ==
    ndarray(shape, [idx \in Indices(shape) |-> Dot(coef, idx) % PixelModulus])

LoadShapes ==
    { <<LoadDepth, 3, LoadH, LoadW>>, <<LoadDepth, LoadH, LoadW, 3>>,
      <<LoadDepth, 2, LoadH, LoadW>>, <<LoadDepth, 3, LoadH, 3>>,
      <<3, LoadH, LoadW>>, <<LoadH, LoadW, 3>>, <<LoadH, LoadW, 2>>,
      <<3, LoadH, 3>>, <<LoadH, LoadW>> }

LoadInputs ==
    UNION { { Pattern(shape, coef) : coef \in [1..Len(shape) -> 0..MaxCoef] } :
            shape \in LoadShapes }

InitLoad ==
    /\ SessionIdle
    /\ \E raw \in LoadInputs, flag \in BOOLEAN :
          call = [fn |-> "load_image", data |-> raw, already_max_projected |-> flag]
    /\ ret = Pending

CallLoadImage ==
    /\ call.fn = "load_image"
    /\ ret = Pending
    /\ ret' = load_image(call.data, call.already_max_projected)
    /\ UNCHANGED <<sessionVars, call>>

NextLoad == CallLoadImage

SpecLoad == InitLoad /\ [][NextLoad]_vars

----------------------------------------------------------------------------
(* Exact fractions for Python floats *)

RECURSIVE GCD(_, _)
GCD(a, b) == IF b = 0 THEN a ELSE GCD(b, a % b)

Zero == <<0, 1>>
NaN == <<0, 0>>

\* n / d for n >= 0, d >= 0 in lowest terms; numpy's mean of nothing is nan
Frac(n, d) == IF d = 0 THEN NaN
              ELSE IF n = 0 THEN Zero
              ELSE LET g == GCD(n, d) IN <<n \div g, d \div g>>

Positive(f) == f[1] > 0 /\ f[2] > 0

----------------------------------------------------------------------------
(* QRect and Python slicing *)

QRect(left, top, width, height) ==
    [left |-> left, top |-> top, width |-> width, height |-> height]

\* a[start:stop] on an axis of length n: the first index and the length taken
SliceBound(i, n) == IF i < 0 THEN (IF i + n < 0 THEN 0 ELSE i + n)
                    ELSE (IF i > n THEN n ELSE i)
SliceStart(start, stop, n) == SliceBound(start, n)
SliceLen(start, stop, n) ==
    LET lo == SliceBound(start, n)
        hi == SliceBound(stop, n)
    IN IF hi > lo THEN hi - lo ELSE 0

\* channel[y : y + h, x : x + w]
slice2d(channel, y, h, x, w) ==
    LET r0 == SliceStart(y, y + h, channel.shape[1])
        nr == SliceLen(y, y + h, channel.shape[1])
        c0 == SliceStart(x, x + w, channel.shape[2])
        nc == SliceLen(x, x + w, channel.shape[2])
    IN ndarray(<<nr, nc>>,
               [idx \in Indices(<<nr, nc>>) |-> channel.data[<<r0 + idx[1], c0 + idx[2]>>]])

----------------------------------------------------------------------------
(* skimage.feature.peak_local_max(image, min_distance, threshold_abs), with *)
(* exclude_border left at its default: a peak is the maximum of the window  *)
(* of 2 * min_distance + 1 around it, exceeds threshold_abs and lies at     *)
(* least min_distance from every border; a constant image has no peak; of   *)
(* two peaks closer than min_distance the brighter (then the first in row   *)
(* order) is kept.  The result is ordered by decreasing intensity.          *)

Abs(n) == IF n < 0 THEN -n ELSE n
Cheb(p, q) == IF Abs(p[1] - q[1]) > Abs(p[2] - q[2])
              THEN Abs(p[1] - q[1]) ELSE Abs(p[2] - q[2])

Window(image, p, d) == {q \in DOMAIN image.data : Cheb(p, q) <= d}

IsWindowMax(image, p, d) == \A q \in Window(image, p, d) : image.data[q] <= image.data[p]

peak_mask(image, min_distance, threshold_abs) ==
    LET trivial == \A p \in DOMAIN image.data : IsWindowMax(image, p, min_distance)
    IN IF trivial THEN {}
       ELSE {p \in DOMAIN image.data :
               /\ image.data[p] > threshold_abs
               /\ \A k \in 1..2 : /\ p[k] >= min_distance
                                  /\ p[k] <= image.shape[k] - 1 - min_distance
               /\ IsWindowMax(image, p, min_distance)}

\* the first of the candidates in the order of the stable sort by -intensity
Brightest(image, C) ==
    CHOOSE p \in C : \A q \in C :
        \/ image.data[p] > image.data[q]
        \/ /\ image.data[p] = image.data[q]
           /\ (p[1] < q[1] \/ (p[1] = q[1] /\ p[2] <= q[2]))

RECURSIVE ensure_spacing(_, _, _, _)
ensure_spacing(image, C, spacing, accepted) ==
    IF C = {} THEN accepted
    ELSE LET p == Brightest(image, C) IN
         ensure_spacing(image, {q \in C : q # p /\ Cheb(p, q) >= spacing}, spacing,
                        Append(accepted, p))

peak_local_max(image, min_distance, threshold_abs) ==
    ensure_spacing(image, peak_mask(image, min_distance, threshold_abs),
                   min_distance, <<>>)

----------------------------------------------------------------------------
(* analyze *)

DefaultThreshold == 100
MinDistance == 2
\* pixel spacings are multiples of 1/SpacingScale micron (4 decimals)
SpacingScale == 10000
DefaultSpacing == 4475

RECURSIVE SumAt(_, _)
SumAt(image, coords) ==
    IF Len(coords) = 0 THEN 0 ELSE image.data[coords[1]] + SumAt(image, Tail(coords))

\* (w * pixel_spacing) * (h * pixel_spacing) in square microns, as <<num, den>>
Area(w, h, spacing) ==
    LET g == GCD(SpacingScale, spacing)
        s == spacing \div g
        u == SpacingScale \div g
    IN <<w * h * s * s, u * u>>

\* analyze as it would be without its guards on count and area
analyze_unguarded(channel, rect, spacing, threshold) ==
    LET sub == slice2d(channel, rect.top, rect.height, rect.left, rect.width)
        coords == peak_local_max(sub, MinDistance, threshold)
        count == Len(coords)
        total == SumAt(sub, coords)
        area == Area(rect.width, rect.height, spacing)
    IN [count |-> count,
        total |-> Frac(total, 1),
        avg |-> Frac(total, count),
        density |-> Frac(count * area[2], area[1])]

analyze(channel, rect, spacing, threshold) ==
    LET sub == slice2d(channel, rect.top, rect.height, rect.left, rect.width)
        coords == peak_local_max(sub, MinDistance, threshold)
        count == Len(coords)
        total == IF count # 0 THEN Frac(SumAt(sub, coords), 1) ELSE Zero
        avg == IF count # 0 THEN Frac(SumAt(sub, coords), count) ELSE Zero
        area == Area(rect.width, rect.height, spacing)
        density == IF Positive(area) THEN Frac(count * area[2], area[1]) ELSE Zero
    IN [count |-> count, total |-> total, avg |-> avg, density |-> density]

----------------------------------------------------------------------------
(* analyze on its own: channels with bright pixels on a flat background *)

Spots(background, value, at) ==
    ndarray(<<ImgH, ImgW>>,
            [idx \in Indices(<<ImgH, ImgW>>) |-> IF idx \in at THEN value ELSE background])

SpotLayouts == { {}, {<<2, 2>>}, {<<2, 2>>, <<2, 3>>}, {<<2, 2>>, <<2, ImgW - 3>>},
                 {<<ImgH - 3, ImgW - 3>>} }

AnalyzeChannels ==
    { Spots(bg, v, at) : bg \in {0, 99}, v \in {99, 100, 250}, at \in SpotLayouts }

AnalyzeRects ==
    { QRect(l, t, w, h) : l \in -MaxOff..MaxOff, t \in -MaxOff..MaxOff,
                          w \in 0..(ImgW + MaxOff), h \in 0..(ImgH + MaxOff) }

PixelSpacings == {0, DefaultSpacing}

InitAnalyze ==
    /\ SessionIdle
    /\ \E ch \in AnalyzeChannels, r \in AnalyzeRects, ps \in PixelSpacings :
          call = [fn |-> "analyze", channel |-> ch, rect |-> r, pixel_spacing |-> ps,
                  threshold |-> DefaultThreshold]
    /\ ret = Pending

CallAnalyze ==
    /\ call.fn = "analyze"
    /\ ret = Pending
    /\ ret' = analyze(call.channel, call.rect, call.pixel_spacing, call.threshold)
    /\ UNCHANGED <<sessionVars, call>>

NextAnalyze == CallAnalyze

SpecAnalyze == InitAnalyze /\ [][NextAnalyze]_vars

----------------------------------------------------------------------------
(* array_to_qimage: the 8-bit grayscale image of a 2D array *)

array_to_qimage(arr) ==
    LET lo == Min({arr.data[p] : p \in DOMAIN arr.data})
        hi == Max({arr.data[p] : p \in DOMAIN arr.data}) - lo
    IN ndarray(arr.shape,
               [idx \in Indices(arr.shape) |->
                   IF hi > 0 THEN (((arr.data[idx] - lo) * 255) \div hi) % 256 ELSE 0])

----------------------------------------------------------------------------
(* The files a session may be started on (tifffile.imread) *)

Files == {"chw.tif", "hwc.tif", "zchw.tif", "gray.tif"}

FileShape(path) ==
    CASE path = "chw.tif" -> <<3, ImgH, ImgW>>
      [] path = "hwc.tif" -> <<ImgH, ImgW, 3>>
      [] path = "zchw.tif" -> <<ImgDepth, 3, ImgH, ImgW>>
      [] path = "gray.tif" -> <<ImgH, ImgW>>

\* pixel (c, y, x) of plane z of a file's content
FilePixel(path, z, c, y, x) ==
    CASE path = "chw.tif" ->
            (CASE c = 0 -> y * ImgW + x
               [] c = 1 -> IF <<y, x>> = <<2, 2>> THEN 250 ELSE 10
               [] c = 2 -> IF <<y, x>> = <<2, 3>> THEN 99 ELSE 50)
      [] path = "hwc.tif" ->
            (CASE c = 0 -> x
               [] c = 1 -> IF <<y, x>> \in {<<2, 2>>, <<2, 4>>} THEN 200 ELSE 0
               [] c = 2 -> IF <<y, x>> = <<2, 3>> THEN 150 ELSE 30)
      [] path = "zchw.tif" ->
            (CASE c = 0 -> y + z
               [] c = 1 -> IF z = 0 /\ <<y, x>> = <<2, 2>> THEN 120 ELSE 20
               [] c = 2 -> IF z = 1 /\ <<y, x>> = <<2, 4>> THEN 180 ELSE 40 - z)
      [] path = "gray.tif" -> y * ImgW + x

imread(path) ==
    ndarray(FileShape(path),
            [idx \in Indices(FileShape(path)) |->
               CASE path = "chw.tif" -> FilePixel(path, 0, idx[1], idx[2], idx[3])
                 [] path = "hwc.tif" -> FilePixel(path, 0, idx[3], idx[1], idx[2])
                 [] path = "zchw.tif" -> FilePixel(path, idx[1], idx[2], idx[3], idx[4])
                 [] path = "gray.tif" -> FilePixel(path, 0, 0, idx[1], idx[2])])

----------------------------------------------------------------------------
(* run_app and RNAScopeCounterApp.__init__ *)

\* what QInputDialog.getDouble may hand back when accepted
DialogValues == {0, DefaultSpacing}

Init ==
    /\ pc = "dialog"
    /\ hippo_path \in Files /\ thal_path \in Files /\ max_projected \in BOOLEAN
    /\ attrs = {}
    /\ pixel_spacing = 0
    /\ hipp_channels = NoArray /\ thal_channels = NoArray
    /\ hipp_rois = <<>> /\ thal_rois = <<>>
    /\ image_label = NoArray
    /\ current_image = "" /\ expected_rois = <<>> /\ current_roi_index = 0
    /\ status_message = ""
    /\ report = <<>> /\ report_writes = 0 /\ analyze_calls = 0
    /\ error = "" /\ submitted = <<>>
    /\ call = NoCall /\ ret = Pending

\* run_app: the pixel spacing dialog; a cancelled dialog gives the default
PixelSpacingDialog ==
    /\ pc = "dialog"
    /\ \E ok \in BOOLEAN, value \in DialogValues :
          pixel_spacing' = IF ok THEN value ELSE DefaultSpacing
    /\ pc' = "load_hipp"
    /\ UNCHANGED <<hippo_path, thal_path, max_projected, attrs, hipp_channels,
                   thal_channels, hipp_rois, thal_rois, image_label, current_image,
                   expected_rois, current_roi_index, status_message, report,
                   report_writes, analyze_calls, error, submitted, call, ret>>

\* __init__: self.hipp_channels = load_image(hippo_path, ...)
LoadHipp ==
    /\ pc = "load_hipp"
    /\ LET r == load_image(imread(hippo_path), max_projected) IN
       IF r.kind = "return"
       THEN /\ hipp_channels' = r.value
            /\ attrs' = attrs \cup {"hipp_channels"}
            /\ pc' = "load_thal"
            /\ error' = error
       ELSE /\ pc' = "aborted"
            /\ error' = r.type
            /\ UNCHANGED <<hipp_channels, attrs>>
    /\ UNCHANGED <<hippo_path, thal_path, max_projected, pixel_spacing,
                   thal_channels, hipp_rois, thal_rois, image_label, current_image,
                   expected_rois, current_roi_index, status_message, report,
                   report_writes, analyze_calls, submitted, call, ret>>

\* LoadThal as it would be if a failed load were caught and startup went on
LoadThalSwallow ==
    /\ pc = "load_thal"
    /\ LET r == load_image(imread(thal_path), max_projected) IN
       IF r.kind = "return"
       THEN /\ thal_channels' = r.value
            /\ attrs' = attrs \cup {"thal_channels"}
       ELSE UNCHANGED <<thal_channels, attrs>>
    /\ pc' = "init"
    /\ error' = error
    /\ UNCHANGED <<hippo_path, thal_path, max_projected, pixel_spacing,
                   hipp_channels, hipp_rois, thal_rois, image_label, current_image,
                   expected_rois, current_roi_index, status_message, report,
                   report_writes, analyze_calls, submitted, call, ret>>

\* __init__: self.thal_channels = load_image(thal_path, ...)
LoadThal ==
    /\ pc = "load_thal"
    /\ LET r == load_image(imread(thal_path), max_projected) IN
       IF r.kind = "return"
       THEN /\ thal_channels' = r.value
            /\ attrs' = attrs \cup {"thal_channels"}
            /\ pc' = "init"
            /\ error' = error
       ELSE /\ pc' = "aborted"
            /\ error' = r.type
            /\ UNCHANGED <<thal_channels, attrs>>
    /\ UNCHANGED <<hippo_path, thal_path, max_projected, pixel_spacing,
                   hipp_channels, hipp_rois, thal_rois, image_label, current_image,
                   expected_rois, current_roi_index, status_message, report,
                   report_writes, analyze_calls, submitted, call, ret>>

HippocampusRegions == <<"CA1", "CA3", "DG">>
ThalamusRegions == <<"Thalamus">>

\* __init__ from self.output_path on: the acquisition state and the first prompt
InitSession ==
    /\ pc = "init"
    /\ attrs' = attrs \cup {"output_path", "pixel_spacing", "hipp_rois", "thal_rois",
                            "image_label", "current_image", "expected_rois",
                            "current_roi_index"}
    /\ hipp_rois' = <<>>
    /\ thal_rois' = <<>>
    /\ image_label' = array_to_qimage(subarray(hipp_channels, 0))
    /\ current_image' = "hippocampus"
    /\ expected_rois' = HippocampusRegions
    /\ current_roi_index' = 0
    /\ status_message' = HippocampusRegions[1]
    /\ pc' = "running"
    /\ UNCHANGED <<hippo_path, thal_path, max_projected, pixel_spacing, hipp_channels,
                   thal_channels, report, report_writes, analyze_calls, error,
                   submitted, call, ret>>

----------------------------------------------------------------------------
(* Python lists and ordered dicts *)

\* list[i] raises IndexError unless -len <= i < len
PyIndexOk(list, i) == -Len(list) <= i /\ i < Len(list)
PyIndex(list, i) == IF i >= 0 THEN list[i + 1] ELSE list[Len(list) + i + 1]

\* d[key] = value: a new key goes last, a known key keeps its place
DictSet(d, key, value) ==
    IF \E i \in 1..Len(d) : d[i][1] = key
    THEN [i \in 1..Len(d) |-> IF d[i][1] = key THEN <<key, value>> ELSE d[i]]
    ELSE Append(d, <<key, value>>)

Keys(d) == [i \in 1..Len(d) |-> d[i][1]]
HasKey(d, key) == \E i \in 1..Len(d) : d[i][1] = key
Lookup(d, key) == d[CHOOSE i \in 1..Len(d) : d[i][1] = key][2]

----------------------------------------------------------------------------
(* RNAScopeCounterApp.finish *)

\* the signal channels as they would be if listed GOA first
SignalChannelsSwapped == <<<<"GOA", 2>>, <<"GOB", 1>>>>

SignalChannels == <<<<"GOB", 1>>, <<"GOA", 2>>>>

\* the rows of one region: one analyze call per signal channel
ChannelRows(roi, channels, spacing) ==
    [i \in 1..Len(SignalChannels) |->
        LET r == analyze(subarray(channels, SignalChannels[i][2]), roi[2], spacing,
                         DefaultThreshold)
        IN [region |-> roi[1], channel |-> SignalChannels[i][1], count |-> r.count,
            total |-> r.total, avg |-> r.avg, density |-> r.density]]

RECURSIVE RegionRows(_, _, _)
RegionRows(rois, channels, spacing) ==
    IF Len(rois) = 0 THEN <<>>
    ELSE ChannelRows(rois[1], channels, spacing)
            \o RegionRows(Tail(rois), channels, spacing)

\* finish: analyse every captured region, write the file, quit the application
finish ==
    /\ report' = RegionRows(hipp_rois', hipp_channels, pixel_spacing)
                    \o RegionRows(thal_rois', thal_channels, pixel_spacing)
    /\ analyze_calls' = analyze_calls + Len(report')
    /\ report_writes' = report_writes + 1
    /\ pc' = "complete"
    /\ UNCHANGED <<current_image, expected_rois, image_label, status_message>>

----------------------------------------------------------------------------
(* RNAScopeCounterApp._roi_complete *)

\* PromptedRegion as it would be if the index were ignored
PromptedRegionFirst(expected, index) == expected[1]

\* region = self.expected_rois[self.current_roi_index]
PromptedRegion(expected, index) == PyIndex(expected, index)

\* RoiRejected as it would be if the handler returned quietly
RoiRejectedSilently ==
    /\ error' = ""
    /\ UNCHANGED <<pc, hipp_rois, thal_rois, current_image, expected_rois,
                   current_roi_index, image_label, status_message, report,
                   report_writes, analyze_calls>>

\* the index is out of range: IndexError leaves the handler before any store
RoiRejected ==
    /\ error' = "IndexError"
    /\ UNCHANGED <<pc, hipp_rois, thal_rois, current_image, expected_rois,
                   current_roi_index, image_label, status_message, report,
                   report_writes, analyze_calls>>

\* the next region of the same image is prompted
PromptNext ==
    /\ current_roi_index' = current_roi_index + 1
    /\ status_message' = PyIndex(expected_rois, current_roi_index + 1)
    /\ UNCHANGED <<pc, current_image, expected_rois, image_label, report,
                   report_writes, analyze_calls>>

\* SwitchToThalamus as it would be without image_label.set_array
SwitchToThalamusNoRedraw ==
    /\ current_image' = "thalamus"
    /\ expected_rois' = ThalamusRegions
    /\ current_roi_index' = 0
    /\ image_label' = image_label
    /\ status_message' = "Thalamus"
    /\ UNCHANGED <<pc, report, report_writes, analyze_calls>>

\* SwitchToThalamus as it would be if the index were not reset
SwitchToThalamusNoReset ==
    /\ current_image' = "thalamus"
    /\ expected_rois' = ThalamusRegions
    /\ current_roi_index' = current_roi_index + 1
    /\ image_label' = array_to_qimage(subarray(thal_channels, 0))
    /\ status_message' = "Thalamus"
    /\ UNCHANGED <<pc, report, report_writes, analyze_calls>>

\* SwitchToThalamus as it would be if the results were also written right away
SwitchToThalamusAndReport ==
    /\ current_image' = "thalamus"
    /\ expected_rois' = ThalamusRegions
    /\ current_roi_index' = 0
    /\ image_label' = array_to_qimage(subarray(thal_channels, 0))
    /\ status_message' = "Thalamus"
    /\ report' = RegionRows(hipp_rois', hipp_channels, pixel_spacing)
                    \o RegionRows(thal_rois', thal_channels, pixel_spacing)
    /\ analyze_calls' = analyze_calls + Len(report')
    /\ report_writes' = report_writes + 1
    /\ pc' = pc

\* the hippocampus regions are done: go on with the thalamus image
SwitchToThalamus ==
    /\ current_image' = "thalamus"
    /\ expected_rois' = ThalamusRegions
    /\ current_roi_index' = 0
    /\ image_label' = array_to_qimage(subarray(thal_channels, 0))
    /\ status_message' = "Thalamus"
    /\ UNCHANGED <<pc, report, report_writes, analyze_calls>>

_roi_complete(rect) ==
    IF ~PyIndexOk(expected_rois, current_roi_index)
    THEN RoiRejected
    ELSE /\ LET region == PromptedRegion(expected_rois, current_roi_index) IN
            IF current_image = "hippocampus"
            THEN hipp_rois' = DictSet(hipp_rois, region, rect) /\ thal_rois' = thal_rois
            ELSE thal_rois' = DictSet(thal_rois, region, rect) /\ hipp_rois' = hipp_rois
         /\ error' = ""
         /\ IF current_roi_index + 1 < Len(expected_rois)
            THEN PromptNext
            ELSE IF current_image = "hippocampus"
                 THEN SwitchToThalamus
                 ELSE current_roi_index' = current_roi_index + 1 /\ finish

\* the rectangles the rubber band may deliver on a channel of ImgH x ImgW
SessionRects ==
    { QRect(0, 0, ImgW, ImgH), QRect(1, 0, ImgW - 1, ImgH), QRect(2, 1, 0, 0),
      QRect(1, -1, ImgW, ImgH) }

\* ROIImageLabel.mouseReleaseEvent: roiSelected is emitted and handled
roiSelected ==
    /\ pc \in {"running", "complete"}
    /\ Len(submitted) < MaxSubmissions
    /\ \E rect \in SessionRects :
          /\ submitted' = Append(submitted, <<status_message, rect>>)
          /\ _roi_complete(rect)
    /\ UNCHANGED <<hippo_path, thal_path, max_projected, attrs, pixel_spacing,
                   hipp_channels, thal_channels, call, ret>>

Next ==
    \/ PixelSpacingDialog
    \/ LoadHipp
    \/ LoadThal
    \/ InitSession
    \/ roiSelected

Spec == Init /\ [][Next]_vars

----------------------------------------------------------------------------
(* Properties *)

Constructed == pc \in {"running", "complete"}
AwaitingROI == pc = "running"
Complete == pc = "complete"

SessionSubmissions == Len(HippocampusRegions) + Len(ThalamusRegions)

\* the rectangle lies inside the channel
InBounds(rect, channel) ==
    /\ rect.left >= 0 /\ rect.top >= 0
    /\ rect.left + rect.width <= channel.shape[2]
    /\ rect.top + rect.height <= channel.shape[1]

RowNames == [i \in 1..Len(report) |-> <<report[i].region, report[i].channel>>]

\* C1: the fourth ROI submission of a session (three for the hippocampus image,
\* one for the thalamus image) completes it, and the report then holds exactly
\* 8 rows: CA1, CA3, DG, Thalamus in this order, GOB before GOA for each.
C1_FourSubmissionsEightRows ==
    /\ AwaitingROI => Len(submitted) < SessionSubmissions
    /\ Complete =>
          /\ Len(submitted) >= SessionSubmissions
          /\ Len(report) = 8
          /\ RowNames = << <<"CA1", "GOB">>, <<"CA1", "GOA">>, <<"CA3", "GOB">>,
                           <<"CA3", "GOA">>, <<"DG", "GOB">>, <<"DG", "GOA">>,
                           <<"Thalamus", "GOB">>, <<"Thalamus", "GOA">> >>

C1_Witness ==
    /\ Complete /\ Len(submitted) = 4 /\ Len(report) = 8
    /\ \E i \in 1..8 : report[i].count > 0

\* C2: a ROI submission that arrives after completion is rejected with an
\* error (Python's IndexError) and changes nothing: no rectangle is stored,
\* the active image, expected list, index and display stay, and neither the
\* analysis nor the report runs again.
C2_SubmitAfterCompleteRejected ==
    [][(Complete /\ submitted' # submitted) =>
          /\ error' = "IndexError"
          /\ UNCHANGED <<pc, hipp_rois, thal_rois, current_image, expected_rois,
                         current_roi_index, image_label, status_message, report,
                         report_writes, analyze_calls>>]_vars

C2_Witness ==
    /\ Complete /\ Len(submitted) = SessionSubmissions + 1
    /\ error = "IndexError" /\ report_writes = 1
    /\ submitted[SessionSubmissions + 1][2] # thal_rois[1][2]

CapturedOutOfBounds ==
    \/ \E i \in 1..Len(hipp_rois) : ~InBounds(hipp_rois[i][2], subarray(hipp_channels, 1))
    \/ \E i \in 1..Len(thal_rois) : ~InBounds(thal_rois[i][2], subarray(thal_channels, 1))

\* C3: when a captured rectangle is not fully inside the channel, the analysis
\* fails with an error and no report is written.
C3_OutOfBoundsAbortsReport ==
    (Constructed /\ Len(submitted) >= SessionSubmissions /\ CapturedOutOfBounds) =>
        (error # "" /\ report_writes = 0 /\ report = <<>>)

UniqueKeys(d) == \A i, j \in 1..Len(d) : d[i][1] = d[j][1] => i = j
IsPrefix(s, t) == Len(s) <= Len(t) /\ s = SubSeq(t, 1, Len(s))

\* the rectangle delivered by the first submission made under the prompt
FirstDelivered(name) ==
    submitted[CHOOSE k \in 1..Len(submitted) :
                 /\ submitted[k][1] = name
                 /\ \A j \in 1..(k - 1) : submitted[j][1] # name][2]

CapturesMatchSubmissions ==
    /\ UniqueKeys(hipp_rois) /\ UniqueKeys(thal_rois)
    /\ IsPrefix(Keys(hipp_rois), HippocampusRegions)
    /\ IsPrefix(Keys(thal_rois), ThalamusRegions)
    /\ \A i \in 1..Len(hipp_rois) :
          /\ \E k \in 1..Len(submitted) : submitted[k][1] = hipp_rois[i][1]
          /\ hipp_rois[i][2] = FirstDelivered(hipp_rois[i][1])
    /\ \A i \in 1..Len(thal_rois) :
          /\ \E k \in 1..Len(submitted) : submitted[k][1] = thal_rois[i][1]
          /\ thal_rois[i][2] = FirstDelivered(thal_rois[i][1])

CapturesKept ==
    /\ \A i \in 1..Len(hipp_rois) :
          HasKey(hipp_rois', hipp_rois[i][1])
             /\ Lookup(hipp_rois', hipp_rois[i][1]) = hipp_rois[i][2]
    /\ \A i \in 1..Len(thal_rois) :
          HasKey(thal_rois', thal_rois[i][1])
             /\ Lookup(thal_rois', thal_rois[i][1]) = thal_rois[i][2]

\* C4: every region name has at most one rectangle, the names of each capture
\* are in prompt order, a captured rectangle is the one delivered while its
\* region was prompted, and no later submission replaces it.
C4_CapturesNeverOverwritten ==
    [](Constructed => CapturesMatchSubmissions) /\ [][Constructed => CapturesKept]_vars

C4_Witness ==
    /\ Complete /\ Len(hipp_rois) = 3 /\ Len(thal_rois) = 1
    /\ hipp_rois[1][2] # hipp_rois[2][2] /\ hipp_rois[2][2] # hipp_rois[3][2]
    /\ Len(submitted) > SessionSubmissions
    /\ submitted[Len(submitted)][2] # thal_rois[1][2]

AcquisitionAttrs == {"hipp_rois", "thal_rois", "image_label", "current_image",
                     "expected_rois", "current_roi_index"}

LoadFails(path) == load_image(imread(path), max_projected).kind = "raise"

\* C5: startup loads the hippocampus image, then the thalamus image, and only
\* then creates the acquisition state; when either load fails startup is
\* aborted with the error, nothing of the acquisition state exists, no prompt
\* is shown and no ROI submission is ever handled.
C5_StartupAbortsOnLoadError ==
    /\ ~Constructed =>
          /\ attrs \cap AcquisitionAttrs = {}
          /\ status_message = "" /\ submitted = <<>>
          /\ hipp_rois = <<>> /\ thal_rois = <<>> /\ image_label = NoArray
    /\ pc \in {"dialog", "load_hipp"} => attrs = {}
    /\ pc = "load_thal" => attrs = {"hipp_channels"}
    /\ pc = "init" => attrs = {"hipp_channels", "thal_channels"}
    /\ pc = "aborted" => error = "ValueError" /\ ~ENABLED roiSelected
    /\ (LoadFails(hippo_path) \/ LoadFails(thal_path)) =>
          pc \in {"dialog", "load_hipp", "load_thal", "aborted"}
    /\ Constructed => AcquisitionAttrs \subseteq attrs

C5_Witness ==
    /\ pc = "aborted" /\ attrs = {"hipp_channels"} /\ error = "ValueError"
    /\ ~LoadFails(hippo_path) /\ LoadFails(thal_path)

DepthValues(raw, idx) == {raw.data[<<z>> \o idx] : z \in 0..(raw.shape[1] - 1)}
IsMaxOf(v, S) == v \in S /\ \A u \in S : u <= v

\* C6: load_image on a 4-dimensional array: with already_max_projected it
\* raises ValueError and projects nothing; without it the result is the
\* maximum over the first axis at every (channel, row, column), the channel
\* axis being the second axis of length 3 (or else a last axis of length 3,
\* moved to the front), and any other layout raises ValueError.
C6_Load4D ==
    (call.fn = "load_image" /\ ret # Pending /\ ndim(call.data) = 4) =>
        LET raw == call.data
            sh == raw.shape
        IN IF call.already_max_projected
           THEN ret = Raise("ValueError",
                    "Image flagged as already max-projected but still has a z dimension")
           ELSE IF sh[2] = 3
           THEN /\ ret.kind = "return"
                /\ ret.value.shape = <<sh[2], sh[3], sh[4]>>
                /\ DOMAIN ret.value.data = Ix(sh[2]) \X Ix(sh[3]) \X Ix(sh[4])
                /\ \A c \in Ix(sh[2]), y \in Ix(sh[3]), x \in Ix(sh[4]) :
                      IsMaxOf(ret.value.data[<<c, y, x>>], DepthValues(raw, <<c, y, x>>))
           ELSE IF sh[4] = 3
           THEN /\ ret.kind = "return"
                /\ ret.value.shape = <<sh[4], sh[2], sh[3]>>
                /\ DOMAIN ret.value.data = Ix(sh[4]) \X Ix(sh[2]) \X Ix(sh[3])
                /\ \A c \in Ix(sh[4]), y \in Ix(sh[2]), x \in Ix(sh[3]) :
                      IsMaxOf(ret.value.data[<<c, y, x>>], DepthValues(raw, <<y, x, c>>))
           ELSE ret = Raise("ValueError", "Expected 3-channel image")

C6_Witness ==
    /\ call.fn = "load_image" /\ ret # Pending /\ ndim(call.data) = 4
    /\ ~call.already_max_projected /\ call.data.shape[2] = 3
    /\ ret.kind = "return"
    /\ \E p \in DOMAIN ret.value.data : ret.value.data[p] # call.data.data[<<0>> \o p]
    /\ \E p \in DOMAIN ret.value.data :
          ret.value.data[p] # call.data.data[<<call.data.shape[1] - 1>> \o p]

InsideRect(p, rect) ==
    /\ rect.top <= p[1] /\ p[1] < rect.top + rect.height
    /\ rect.left <= p[2] /\ p[2] < rect.left + rect.width

\* every value of the channel, or every value inside an in-bounds rectangle,
\* is below the threshold
BelowThreshold(channel, rect, threshold) ==
    \/ \A p \in DOMAIN channel.data : channel.data[p] < threshold
    \/ /\ InBounds(rect, channel)
       /\ \A p \in DOMAIN channel.data :
             InsideRect(p, rect) => channel.data[p] < threshold

\* C7: when the values inside the rectangle are all below the threshold,
\* analyze returns count 0, total 0.0, average 0.0 and density 0.0, whatever
\* the size of the rectangle (zero width or height included) and the pixel
\* spacing (zero included).
C7_BelowThresholdAllZero ==
    (call.fn = "analyze" /\ ret # Pending
        /\ BelowThreshold(call.channel, call.rect, call.threshold)) =>
        ret = [count |-> 0, total |-> Zero, avg |-> Zero, density |-> Zero]

C7_Witness ==
    /\ call.fn = "analyze" /\ ret # Pending
    /\ InBounds(call.rect, call.channel)
    /\ call.rect.width > 0 /\ call.rect.height > 0 /\ call.pixel_spacing > 0
    /\ \E p \in DOMAIN call.channel.data : call.channel.data[p] >= call.threshold
    /\ BelowThreshold(call.channel, call.rect, call.threshold)
    /\ ret.count = 0 /\ ret.density = Zero

ActiveStack == IF current_image = "hippocampus" THEN hipp_channels ELSE thal_channels

\* C8: the third submission (DG) makes thalamus the active image, the expected
\* list <<"Thalamus">> and the index 0, shows channel 0 of the thalamus stack
\* and keeps the session awaiting a ROI; while a ROI is awaited the display is
\* always channel 0 of the active image's stack.
C8_DisplayFollowsActiveImage ==
    AwaitingROI =>
        /\ image_label = array_to_qimage(subarray(ActiveStack, 0))
        /\ Len(submitted) < Len(HippocampusRegions) => current_image = "hippocampus"
        /\ Len(submitted) = Len(HippocampusRegions) =>
              /\ current_image = "thalamus"
              /\ expected_rois = <<"Thalamus">>
              /\ current_roi_index = 0
              /\ status_message = "Thalamus"

C8_Witness ==
    /\ AwaitingROI /\ current_image = "thalamus" /\ Len(submitted) = 3
    /\ image_label = array_to_qimage(subarray(thal_channels, 0))
    /\ image_label # array_to_qimage(subarray(hipp_channels, 0))

\* C9: no analysis runs and no report is written before the fourth submission
\* (the one that exhausts the thalamus sequence); that submission runs the 8
\* analyses and writes the report once before it returns, and nothing runs or
\* is written again afterwards.
C9_AnalysisOnceAtCompletion ==
    /\ ~Constructed => analyze_calls = 0 /\ report_writes = 0 /\ report = <<>>
    /\ (Constructed /\ Len(submitted) < SessionSubmissions) =>
          /\ AwaitingROI
          /\ analyze_calls = 0 /\ report_writes = 0 /\ report = <<>>
    /\ (Constructed /\ Len(submitted) >= SessionSubmissions) =>
          /\ Complete
          /\ analyze_calls = 8 /\ report_writes = 1 /\ Len(report) = 8

C9_Witness ==
    /\ Complete /\ Len(submitted) = SessionSubmissions
    /\ analyze_calls = 8 /\ report_writes = 1 /\ error = ""

\* C10: while a ROI is awaited the index lies within the expected list and
\* the prompt names the region at the index; with hippocampus active the
\* hippocampus capture holds exactly the first index names of CA1, CA3, DG and
\* the thalamus capture is empty; with thalamus active the hippocampus capture
\* holds CA1, CA3, DG and the thalamus capture is empty until the final
\* submission, which fills it.
C10_IndexAndCapturesConsistent ==
    /\ AwaitingROI =>
          /\ 0 <= current_roi_index /\ current_roi_index < Len(expected_rois)
          /\ status_message = expected_rois[current_roi_index + 1]
          /\ current_image \in {"hippocampus", "thalamus"}
          /\ current_image = "hippocampus" =>
                /\ expected_rois = <<"CA1", "CA3", "DG">>
                /\ Keys(hipp_rois) = SubSeq(<<"CA1", "CA3", "DG">>, 1, current_roi_index)
                /\ thal_rois = <<>>
          /\ current_image = "thalamus" =>
                /\ expected_rois = <<"Thalamus">>
                /\ Keys(hipp_rois) = <<"CA1", "CA3", "DG">>
                /\ thal_rois = <<>>
    /\ Complete =>
          /\ Keys(hipp_rois) = <<"CA1", "CA3", "DG">>
          /\ Keys(thal_rois) = <<"Thalamus">>

C10_Witness ==
    /\ AwaitingROI /\ current_image = "hippocampus" /\ current_roi_index = 2
    /\ Keys(hipp_rois) = <<"CA1", "CA3">>

====
